---- MODULE Spec2Model ----
(***************************************************************************)
(* A model of the Socius networking agent (agent/core): the Match Scorer   *)
(* (matching.py), the Permission Policy (permissions.py, with the          *)
(* preference store of mcp-server behind it) and the Outreach Orchestrator *)
(* (agent.py).                                                             *)
(*                                                                         *)
(* Python strings are sequences of one-character strings, so that lower(), *)
(* split() and the substring test `in` are computed, not assumed.  Floats  *)
(* are exact rationals <<numerator, denominator>>.  A dict is a function   *)
(* whose DOMAIN is its key set, so a missing key really is missing.        *)
(***************************************************************************)
EXTENDS Integers, Sequences, FiniteSets, TLC

VARIABLES
    user1_profile,   \* MatchingEngine call: first argument
    user2_profile,   \* MatchingEngine call: second argument
    match_out,       \* what the last calculate_match_score call computed
    preferences,     \* mcp-server: the user_preferences table, one row per user
    policy_call,     \* the last Permission Policy read and what it returned
    update_calls,    \* the update_permission calls, one per client session
    profiles,        \* the profile store: user id -> profile
    active_agents,   \* agent/main.py: the registry user id -> SociusAgent
    call,            \* the request the agent process is handling, and its locals
    deliveries,      \* the delivery adapters' invocations of the request, in order
    interaction_logs, \* mcp-server: the interaction_logs table, in order
    conversations,   \* mcp-server: the conversation store, oldest message first
    served           \* agent/main.py: how many requests have been answered

match_vars == <<user1_profile, user2_profile, match_out>>
agent_vars == <<profiles, active_agents, call, deliveries, interaction_logs,
               conversations, served>>
vars == <<user1_profile, user2_profile, match_out, preferences, policy_call,
          update_calls, profiles, active_agents, call, deliveries, interaction_logs,
          conversations, served>>

-----------------------------------------------------------------------------
(* Python str / list primitives                                            *)

UpperChars == <<"A","B","C","D","E","F","G","H","I","J","K","L","M",
                "N","O","P","Q","R","S","T","U","V","W","X","Y","Z">>
LowerChars == <<"a","b","c","d","e","f","g","h","i","j","k","l","m",
                "n","o","p","q","r","s","t","u","v","w","x","y","z">>

\* str.lower() on the upper-case letters
LowerOfUpper ==
    [c \in {UpperChars[i] : i \in DOMAIN UpperChars} |->
        LowerChars[CHOOSE i \in DOMAIN UpperChars : UpperChars[i] = c]]

\* str.lower() on one character
LowerChar(c) == IF c \in DOMAIN LowerOfUpper THEN LowerOfUpper[c] ELSE c

\* str.lower()
Lower(s) == [i \in DOMAIN s |-> LowerChar(s[i])]

\* str.split(): the maximal runs of non-blank characters, in order
RECURSIVE SplitFrom(_, _, _)
SplitFrom(s, i, cur) ==
    IF i > Len(s)
    THEN (IF cur = <<>> THEN <<>> ELSE <<cur>>)
    ELSE IF s[i] = " "
         THEN (IF cur = <<>> THEN <<>> ELSE <<cur>>) \o SplitFrom(s, i + 1, <<>>)
         ELSE SplitFrom(s, i + 1, Append(cur, s[i]))

Split(s) == SplitFrom(s, 1, <<>>)

\* `w in s` for two strings
Contains(s, w) ==
    \E i \in 0..(Len(s) - Len(w)) : SubSeq(s, i + 1, i + Len(w)) = w

\* ' '.join(list)
RECURSIVE Join(_)
Join(list) ==
    IF list = <<>> THEN <<>>
    ELSE IF Len(list) = 1 THEN list[1]
    ELSE list[1] \o <<" ">> \o Join(Tail(list))

\* set(...) of a list
ToSet(list) == {list[i] : i \in DOMAIN list}

\* dict.get(key, default)
Get(d, key, default) == IF key \in DOMAIN d THEN d[key] ELSE default

-----------------------------------------------------------------------------
(* Exact rationals <<n, d>>, d > 0, standing for Python floats             *)

RECURSIVE Gcd(_, _)
Gcd(m, n) == IF n = 0 THEN m ELSE Gcd(n, m % n)

\* the rational n/d in lowest terms (0 is <<0, 1>>)
Rat(n, d) == LET g == Gcd(n, d) IN <<n \div g, d \div g>>
RatLeq(a, b) == a[1] * b[2] <= b[1] * a[2]
RatGeq(a, b) == RatLeq(b, a)
RatLess(a, b) == a[1] * b[2] < b[1] * a[2]
RatAdd(a, b) == Rat(a[1] * b[2] + b[1] * a[2], a[2] * b[2])
RatMul(a, b) == Rat(a[1] * b[1], a[2] * b[2])
RatDiv(a, b) == Rat(a[1] * b[2], a[2] * b[1])
RatMin(a, b) == IF RatLeq(a, b) THEN a ELSE b
Zero == Rat(0, 1)
One == Rat(1, 1)

-----------------------------------------------------------------------------
(* matching.py: MatchingEngine                                             *)

\* the intersection taken over the smaller set instead of the union
OverlapOverSmaller(set1, set2) ==
    IF Cardinality(set1 \cup set2) > 0 /\ set1 # {} /\ set2 # {}
    THEN Rat(Cardinality(set1 \cap set2),
             IF Cardinality(set1) < Cardinality(set2)
             THEN Cardinality(set1) ELSE Cardinality(set2))
    ELSE Zero

\* len(set1 & set2) / len(set1 | set2) if union > 0 else 0.0
Jaccard(set1, set2) ==
    IF Cardinality(set1 \cup set2) > 0
    THEN Rat(Cardinality(set1 \cap set2), Cardinality(set1 \cup set2))
    ELSE Zero

\* the overlap taken relative to the first user's interests only
InterestOverlapOfFirst(interests1, interests2) ==
    IF interests1 = <<>> \/ interests2 = <<>> THEN Zero
    ELSE LET set1 == {Lower(i) : i \in ToSet(interests1)}
             set2 == {Lower(i) : i \in ToSet(interests2)}
         IN  Rat(Cardinality(set1 \cap set2), Cardinality(set1))

_calculate_interest_overlap(interests1, interests2) ==
    IF interests1 = <<>> \/ interests2 = <<>> THEN Zero
    ELSE Jaccard({Lower(i) : i \in ToSet(interests1)},
                 {Lower(i) : i \in ToSet(interests2)})

_calculate_industry_match(industry1, industry2) ==
    IF industry1 = <<>> \/ industry2 = <<>> THEN Zero
    ELSE IF Lower(industry1) = Lower(industry2) THEN One
    ELSE LET overlap == Cardinality(ToSet(Split(Lower(industry1)))
                                    \cap ToSet(Split(Lower(industry2))))
         IN  IF overlap > 0 THEN RatMin(Rat(overlap, 3), Rat(7, 10)) ELSE Zero

seniority_levels ==
    << <<"j","u","n","i","o","r">>, <<"m","i","d">>, <<"s","e","n","i","o","r">>,
       <<"l","e","a","d">>, <<"m","a","n","a","g","e","r">>,
       <<"d","i","r","e","c","t","o","r">>, <<"v","p">>,
       <<"c","-","l","e","v","e","l">> >>

\* next((i for i, level in enumerate(seniority_levels) if level in s.lower()), -1)
SeniorityLevel(seniority) ==
    LET hits == {i \in DOMAIN seniority_levels :
                    Contains(Lower(seniority), seniority_levels[i])}
    IN  IF hits = {} THEN -1
        ELSE (CHOOSE i \in hits : \A j \in hits : i <= j) - 1

Abs(n) == IF n < 0 THEN -n ELSE n

\* 0.3 given to every pair of different roles, without the token check
RolePointsWithoutTokenCheck(role1, role2) ==
    IF role1 # <<>> /\ role2 # <<>>
    THEN IF Lower(role1) = Lower(role2) THEN 5 ELSE 3
    ELSE 0

\* the role part of _calculate_role_compatibility, in tenths
RolePoints(role1, role2) ==
    IF role1 # <<>> /\ role2 # <<>>
    THEN IF Lower(role1) = Lower(role2) THEN 5
         ELSE IF \E word \in ToSet(Split(Lower(role1))) : Contains(Lower(role2), word)
              THEN 3 ELSE 0
    ELSE 0

\* the ladder index looked up by equality with a ladder token
SeniorityPointsExactLevel(seniority1, seniority2) ==
    IF seniority1 # <<>> /\ seniority2 # <<>>
    THEN LET Exact(s) == {i \in DOMAIN seniority_levels : Lower(s) = seniority_levels[i]}
             hits1 == Exact(seniority1)
             hits2 == Exact(seniority2)
         IN  IF hits1 # {} /\ hits2 # {}
             THEN LET diff == Abs((CHOOSE i \in hits1 : TRUE) - (CHOOSE i \in hits2 : TRUE))
                  IN  IF diff = 0 THEN 5 ELSE IF diff = 1 THEN 3
                      ELSE IF diff = 2 THEN 1 ELSE 0
             ELSE 0
    ELSE 0

\* the seniority part of _calculate_role_compatibility, in tenths
SeniorityPoints(seniority1, seniority2) ==
    IF seniority1 # <<>> /\ seniority2 # <<>>
    THEN LET level1 == SeniorityLevel(seniority1)
             level2 == SeniorityLevel(seniority2)
             diff == Abs(level1 - level2)
         IN  IF level1 >= 0 /\ level2 >= 0
             THEN (IF diff = 0 THEN 5 ELSE IF diff = 1 THEN 3
                   ELSE IF diff = 2 THEN 1 ELSE 0)
             ELSE 0
    ELSE 0

_calculate_role_compatibility(role1, role2, seniority1, seniority2) ==
    RatMin(Rat(RolePoints(role1, role2) + SeniorityPoints(seniority1, seniority2), 10),
           One)

_calculate_goals_alignment(goals1, goals2) ==
    IF goals1 = <<>> \/ goals2 = <<>> THEN Zero
    ELSE Jaccard(ToSet(Split(Lower(Join(goals1)))),
                 ToSet(Split(Lower(Join(goals2)))))

\* the weights of calculate_match_score, as rationals
InterestWeight == Rat(4, 10)
IndustryWeight == Rat(3, 10)
RoleWeight == Rat(2, 10)
GoalsWeight == Rat(1, 10)

\* the four sub-scores calculate_match_score computes, and the result
MatchParts(a, b) ==
    [interest |-> _calculate_interest_overlap(Get(a, "interests", <<>>),
                                              Get(b, "interests", <<>>)),
     industry |-> _calculate_industry_match(Get(a, "industry", <<>>),
                                            Get(b, "industry", <<>>)),
     role     |-> _calculate_role_compatibility(Get(a, "role", <<>>),
                                                Get(b, "role", <<>>),
                                                Get(a, "seniority", <<>>),
                                                Get(b, "seniority", <<>>)),
     goals    |-> _calculate_goals_alignment(Get(a, "goals", <<>>),
                                             Get(b, "goals", <<>>))]

\* the role part weighted like the industry part
WeightedSumRoleAsIndustry(parts) ==
    RatAdd(RatAdd(RatAdd(RatMul(parts.interest, InterestWeight),
                         RatMul(parts.industry, IndustryWeight)),
                  RatMul(parts.role, IndustryWeight)),
           RatMul(parts.goals, GoalsWeight))

WeightedSum(parts) ==
    RatAdd(RatAdd(RatAdd(RatMul(parts.interest, InterestWeight),
                         RatMul(parts.industry, IndustryWeight)),
                  RatMul(parts.role, RoleWeight)),
           RatMul(parts.goals, GoalsWeight))

calculate_match_score(a, b) ==
    LET score == WeightedSum(MatchParts(a, b))
        weights_sum == RatAdd(RatAdd(RatAdd(InterestWeight, IndustryWeight),
                                     RoleWeight), GoalsWeight)
    IN  IF weights_sum[1] > 0 THEN RatDiv(score, weights_sum) ELSE Zero

-----------------------------------------------------------------------------
(* permissions.py: ActionType, PermissionLevel, PermissionsManager         *)

\* enum members, and each member's .value
ActionType ==
    {"SEND_MESSAGE", "SCHEDULE_MEETING", "SEND_EMAIL", "SHARE_PROFILE",
     "REQUEST_CONNECTION"}

ActionValue ==
    [SEND_MESSAGE       |-> "send_message",
     SCHEDULE_MEETING   |-> "schedule_meeting",
     SEND_EMAIL         |-> "send_email",
     SHARE_PROFILE      |-> "share_profile",
     REQUEST_CONNECTION |-> "request_connection"]

PermissionLevels == {"ALWAYS_ASK", "AUTO_HIGH_MATCH", "ALWAYS_AUTO", "NEVER"}

LevelValue ==
    [ALWAYS_ASK      |-> "always_ask",
     AUTO_HIGH_MATCH |-> "auto_high_match",
     ALWAYS_AUTO     |-> "always_auto",
     NEVER           |-> "never"]

\* PermissionLevel(perm_str): the member with that value, or ValueError
ValueError == "ValueError"
PermissionLevel(perm_str) ==
    IF \E m \in PermissionLevels : LevelValue[m] = perm_str
    THEN CHOOSE m \in PermissionLevels : LevelValue[m] = perm_str
    ELSE ValueError

default_permissions ==
    [SEND_MESSAGE       |-> "AUTO_HIGH_MATCH",
     SCHEDULE_MEETING   |-> "ALWAYS_ASK",
     SEND_EMAIL         |-> "AUTO_HIGH_MATCH",
     SHARE_PROFILE      |-> "ALWAYS_AUTO",
     REQUEST_CONNECTION |-> "AUTO_HIGH_MATCH"]

\* a JSON null, and Python truthiness of a stored JSON value
JsonNull == "<null>"
Truthy(v) == v # "" /\ v # JsonNull

EmptyDict == [k \in {} |-> ""]

\* an unparseable value answered with ALWAYS_ASK instead of the action's default
GetUserPermissionsAskOnInvalid(prefs) ==
    LET permissions == Get(prefs, "permissions", EmptyDict)
    IN  [action_type \in ActionType |->
            LET perm_str == Get(permissions, ActionValue[action_type], JsonNull)
            IN  IF Truthy(perm_str)
                THEN IF PermissionLevel(perm_str) # ValueError
                     THEN PermissionLevel(perm_str)
                     ELSE "ALWAYS_ASK"
                ELSE default_permissions[action_type]]

\* get_user_permissions, from the preferences the store returned
get_user_permissions(prefs) ==
    LET permissions == Get(prefs, "permissions", EmptyDict)
    IN  [action_type \in ActionType |->
            LET perm_str == Get(permissions, ActionValue[action_type], JsonNull)
            IN  IF Truthy(perm_str)
                THEN IF PermissionLevel(perm_str) # ValueError
                     THEN PermissionLevel(perm_str)
                     ELSE default_permissions[action_type]
                ELSE default_permissions[action_type]]

\* ALWAYS_ASK falling into the AUTO_HIGH_MATCH branch
DecideAskAsHighMatch(permission_level, is_high_match) ==
    IF permission_level = "NEVER" THEN FALSE
    ELSE IF permission_level = "ALWAYS_AUTO" THEN TRUE
    ELSE is_high_match

\* the decision table of can_auto_execute
Decide(permission_level, is_high_match) ==
    IF permission_level = "NEVER" THEN FALSE
    ELSE IF permission_level = "ALWAYS_AUTO" THEN TRUE
    ELSE IF permission_level = "AUTO_HIGH_MATCH" THEN is_high_match
    ELSE FALSE

\* a high match overriding every level but NEVER
CanAutoExecuteHighMatchFirst(prefs, action_type, is_high_match) ==
    LET permissions == get_user_permissions(prefs)
        permission_level == Get(permissions, action_type, "ALWAYS_ASK")
    IN  IF is_high_match THEN permission_level # "NEVER"
        ELSE Decide(permission_level, is_high_match)

\* can_auto_execute, from the preferences the store returned
can_auto_execute(prefs, action_type, is_high_match) ==
    LET permissions == get_user_permissions(prefs)
        permission_level == Get(permissions, action_type, "ALWAYS_ASK")
    IN  Decide(permission_level, is_high_match)

-----------------------------------------------------------------------------
(* mcp-server: the preference store behind GET/PATCH /preferences/{user}   *)

UserIds == {"u1", "u2"}

NoRow == [exists |-> FALSE]
Row(permissions) == [exists |-> TRUE, permissions |-> permissions]

\* the defaults GET /preferences/{user_id} answers with when there is no row
ServerDefaultPermissions ==
    [send_message       |-> "auto_high_match",
     schedule_meeting   |-> "always_ask",
     send_email         |-> "auto_high_match",
     share_profile      |-> "always_auto",
     request_connection |-> "auto_high_match"]

\* the stored row never looked at
GetPreferencesIgnoresRow(table, user_id) ==
    [user_id |-> user_id, permissions |-> ServerDefaultPermissions]

\* GET /preferences/{user_id}, as MCPClient.get_user_preferences returns it
GetPreferences(table, user_id) ==
    IF table[user_id].exists
    THEN [user_id |-> user_id, permissions |-> table[user_id].permissions]
    ELSE [user_id |-> user_id, permissions |-> ServerDefaultPermissions]

\* dict.update
DictUpdate(old, new) ==
    [k \in DOMAIN old \cup DOMAIN new |-> IF k \in DOMAIN new THEN new[k] ELSE old[k]]

\* the merge taken the other way round: stored keys win over the request's
PatchPreferencesStoredWins(table, user_id, permissions) ==
    [table EXCEPT ![user_id] =
        IF table[user_id].exists
        THEN Row(DictUpdate(permissions, table[user_id].permissions))
        ELSE Row(permissions)]

\* PATCH /preferences/{user_id} with body {'permissions': permissions}
PatchPreferences(table, user_id, permissions) ==
    [table EXCEPT ![user_id] =
        IF table[user_id].exists
        THEN Row(DictUpdate(table[user_id].permissions, permissions))
        ELSE Row(permissions)]

-----------------------------------------------------------------------------
(* matching.py: is_high_match, get_match_reason                            *)

\* Config.HIGH_MATCH_THRESHOLD, 0.75 unless the environment sets it
HIGH_MATCH_THRESHOLD == Rat(3, 4)

\* the comparison made strict
IsHighMatchStrict(score) == RatLess(HIGH_MATCH_THRESHOLD, score)

is_high_match(score) == RatGeq(score, HIGH_MATCH_THRESHOLD)

\* the reasons get_match_reason collects, in its order
MatchReasons(a, b) ==
    LET interests1 == {Lower(i) : i \in ToSet(Get(a, "interests", <<>>))}
        interests2 == {Lower(i) : i \in ToSet(Get(b, "interests", <<>>))}
    IN  (IF interests1 \cap interests2 # {} THEN <<"shared interests">> ELSE <<>>)
        \o (IF Lower(Get(a, "industry", <<>>)) = Lower(Get(b, "industry", <<>>))
            THEN <<"both work in">> ELSE <<>>)
        \o (IF /\ Get(a, "role", <<>>) # <<>>
               /\ Get(b, "role", <<>>) # <<>>
               /\ Lower(Get(a, "role", <<>>)) = Lower(Get(b, "role", <<>>))
            THEN <<"similar roles">> ELSE <<>>)

\* " and ".join(reasons[:2]), or the fallback phrase
get_match_reason(a, b) ==
    LET reasons == MatchReasons(a, b)
    IN  IF reasons = <<>> THEN <<"potential synergy based on your profiles">>
        ELSE SubSeq(reasons, 1, IF Len(reasons) < 2 THEN Len(reasons) ELSE 2)

-----------------------------------------------------------------------------
(* agent.py: SociusAgent, behind agent/main.py's /users/{user_id}/detected *)

\* Python's None where a profile is expected
PyNone == [py_none |-> TRUE]

\* MCPClient.get_user_profile: the profile, or None on 404
GetUserProfile(store, user_id) ==
    IF user_id \in DOMAIN store THEN store[user_id] ELSE PyNone

\* `not other_profile`
\* a missing profile never noticed
NoProfileNever(profile) == FALSE

NoProfile(profile) == profile = PyNone \/ DOMAIN profile = {}

\* contact_info.get('phone') / .get('email'), "" standing for None
ContactOf(profile, key) == Get(Get(profile, "contact", EmptyDict), key, "")

\* the branch _autonomous_outreach takes on the contact information
Channel(other_profile) ==
    IF ContactOf(other_profile, "phone") # "" THEN "imessage"
    ELSE IF ContactOf(other_profile, "email") # "" THEN "email"
    ELSE "none"

\* the outreach entered whatever the permission check said
GateBranchAlwaysOutreach(can_auto_message) == "templates"

\* where handle_new_person_nearby goes after the permission check
GateBranch(can_auto_message) == IF can_auto_message THEN "templates" ELSE "ask"

\* assign locals of the running call
Assign(locals, new) == DictUpdate(locals, new)

Idle == [pc |-> "idle"]
Raised(c, error) == Assign(c, [pc |-> "raised", error |-> error])
Returned(c, result) == Assign(c, [pc |-> "returned", result |-> result])

SendAdapters == {"imessage", "gmail"}
Delivery(adapter, via, delivered) ==
    [adapter |-> adapter, via |-> via, delivered |-> delivered]

\* POST /users/{user_id}/detected: get_or_create_agent, then the handler starts.
\* SociusAgent.__init__ reads the user's own profile once and keeps it.
UserDetected(user_id, other_user_id) ==
    /\ call.pc = "idle"
    /\ IF user_id \in DOMAIN active_agents
       THEN /\ call' = [pc |-> "lookup", handler |-> "detected", user_id |-> user_id,
                        other_user_id |-> other_user_id]
            /\ UNCHANGED active_agents
       ELSE \/ /\ active_agents' =
                    Assign(active_agents,
                           [u \in {user_id} |->
                               [user_profile |-> GetUserProfile(profiles, user_id)]])
               /\ call' = [pc |-> "lookup", handler |-> "detected", user_id |-> user_id,
                           other_user_id |-> other_user_id]
            \/ /\ call' = [pc |-> "raised", handler |-> "detected", user_id |-> user_id,
                           other_user_id |-> other_user_id, error |-> "agent_init"]
               /\ UNCHANGED active_agents
    /\ UNCHANGED <<served, conversations, profiles, deliveries, interaction_logs, preferences, policy_call,
                   update_calls, match_vars>>

\* other_profile = self.mcp_client.get_user_profile(other_user_id)
\* if not other_profile: return {'action': 'skip', 'reason': 'No profile found'}
Lookup ==
    /\ call.pc = "lookup"
    /\ \/ LET other_profile == GetUserProfile(profiles, call.other_user_id)
          IN  call' = IF NoProfile(other_profile)
                      THEN Returned(call, [action |-> "skip",
                                           reason |-> "No profile found"])
                      ELSE Assign(call, [pc |-> "score",
                                         other_profile |-> other_profile])
       \/ call' = Raised(call, "MCPError")
    /\ UNCHANGED <<served, conversations, profiles, active_agents, deliveries, interaction_logs, preferences,
                   policy_call, update_calls, match_vars>>

\* match_score = calculate_match_score(self.user_profile, other_profile)
\* is_high_match = self.matching_engine.is_high_match(match_score)
Score ==
    /\ call.pc = "score"
    /\ LET user_profile == active_agents[call.user_id].user_profile
       IN  call' =
             IF user_profile = PyNone
             THEN Raised(call, "AttributeError")
             ELSE LET match_score == calculate_match_score(user_profile,
                                                           call.other_profile)
                  IN  Assign(call, [pc |-> "gate", match_score |-> match_score,
                                    is_high_match |-> is_high_match(match_score)])
    /\ UNCHANGED <<served, conversations, profiles, active_agents, deliveries, interaction_logs, preferences,
                   policy_call, update_calls, match_vars>>

\* can_auto_message = can_auto_execute(self.user_id, SEND_MESSAGE, is_high_match)
Gate ==
    /\ call.pc = "gate"
    /\ \/ LET can_auto_message ==
                can_auto_execute(GetPreferences(preferences, call.user_id),
                                 "SEND_MESSAGE", call.is_high_match)
          IN  call' = Assign(call, [pc |-> GateBranch(can_auto_message),
                                    can_auto_message |-> can_auto_message])
       \/ call' = Raised(call, "MCPError")
    /\ UNCHANGED <<served, conversations, profiles, active_agents, deliveries, interaction_logs, preferences,
                   policy_call, update_calls, match_vars>>

\* return {'action': 'request_permission', 'other_user': ..., 'match_score': ...,
\*         'reason': get_match_reason(...), 'context': context}
AskPermission ==
    /\ call.pc = "ask"
    /\ call' = Returned(call,
                 [action |-> "request_permission",
                  other_user |-> call.other_profile,
                  match_score |-> call.match_score,
                  reason |-> get_match_reason(active_agents[call.user_id].user_profile,
                                              call.other_profile)])
    /\ UNCHANGED <<served, conversations, profiles, active_agents, deliveries, interaction_logs, preferences,
                   policy_call, update_calls, match_vars>>

\* run(): messages = [{"role": "user", "content": task}], before the first
\* messages.create
RunStart(task) ==
    [pc |-> "llm", rounds |-> 0, messages |-> <<[role |-> "user", content |-> task]>>]

\* _autonomous_outreach: templates = self.mcp_client.get_message_templates(...)
Templates ==
    /\ call.pc = "templates"
    /\ \/ call' = Assign(call, RunStart([task |-> "introduction"]))
       \/ call' = Raised(call, "MCPError")
    /\ UNCHANGED <<served, conversations, profiles, active_agents, deliveries, interaction_logs, preferences,
                   policy_call, update_calls, match_vars>>

\* a content block of type text, where the others are tool_use blocks known
\* by the name of their tool
TextBlock == "<text>"

\* the content blocks of one tool_use response of the text generator
ToolUseContents ==
    {<<"send_email">>, <<"create_calendar_event">>, <<"get_weather">>,
     <<"find_next_free_slot", "send_email">>,
     <<TextBlock, "calculate_match", "get_profile">>}

\* the final texts the text generator answers with
FinalTexts == {"Hi, great to meet you!", "Let me ask them to take over.", ""}

\* how many tool_use rounds the text generator asks for before its final answer
MaxToolRounds == 1

\* run() returns {"output": final_response, ...} to the handler that called it:
\* message = response.get('output', '') in _autonomous_outreach,
\* output = response.get('output', '') in handle_incoming_message
RunReturn(c, final_response) ==
    IF c.handler = "incoming"
    THEN [pc |-> "save_response", output |-> final_response]
    ELSE [pc |-> "send", message |-> final_response]

\* run(): one self.anthropic.messages.create(...) and what it answers
LLM ==
    /\ call.pc = "llm"
    /\ \/ \E text \in FinalTexts : call' = Assign(call, RunReturn(call, text))
       \/ /\ call.rounds < MaxToolRounds
          /\ \E content \in ToolUseContents :
               call' = Assign(call, [pc |-> "tools", content |-> content])
       \/ call' = Raised(call, "APIError")
    /\ UNCHANGED <<served, conversations, profiles, active_agents, deliveries, interaction_logs, preferences,
                   policy_call, update_calls, match_vars>>

\* what _execute_tool does to the world for one tool_use block: send_email
\* invokes the Gmail adapter; create_calendar_event and find_next_free_slot call
\* methods GmailTool does not have, and like every exception of a tool that
\* ends as an {'error': ...} result; an unknown name is answered the same way
ToolEffect(tool_name, ok) ==
    IF tool_name = "send_email" THEN <<Delivery("gmail", "tool", ok)>>
    ELSE <<>>

\* the tools _execute_tool has a branch for
DispatchedTools ==
    {"send_email", "create_calendar_event", "find_next_free_slot",
     "get_email_message", "get_calendar_event"}

\* the tools whose branch calls a method GmailTool does not have
MissingMethodTools == {"create_calendar_event", "find_next_free_slot"}

\* what _execute_tool returns: the adapter's answer (a str, or a dict holding
\* one), {'error': str(e)} for whatever the branch raised, and {'error':
\* 'Unknown tool: ...'} for a name without a branch
_execute_tool(tool_name, tool_input, ok) ==
    IF tool_name \notin DispatchedTools
    THEN [error |-> "Unknown tool", tool |-> tool_name]
    ELSE IF tool_name \in MissingMethodTools THEN [error |-> "AttributeError"]
    ELSE IF ok THEN [str |-> "ok", tool |-> tool_name]
    ELSE [error |-> "Exception"]

\* the input the text generator gives a tool: for the tools that name a user,
\* the person the running request is about
ToolInput(c, tool_name) ==
    LET about == IF c.handler = "incoming" THEN c.sender_id ELSE c.other_user_id
    IN  IF tool_name = "calculate_match" THEN [other_user_id |-> about]
        ELSE IF tool_name = "get_profile" THEN [user_id |-> about]
        ELSE EmptyDict

\* response.content of round `round`: the blocks, each tool_use block with the
\* id the text generator gave it
ContentBlocks(content, round) ==
    [i \in DOMAIN content |->
        IF content[i] = TextBlock
        THEN [type |-> "text"]
        ELSE [type |-> "tool_use", name |-> content[i], id |-> <<round, i>>]]

\* run(): tool_results, one per tool_use block of response.content, in order
RECURSIVE ToolResults(_, _, _)
ToolResults(c, blocks, oks) ==
    IF blocks = <<>> THEN <<>>
    ELSE LET block == Head(blocks)
             rest  == ToolResults(c, Tail(blocks), Tail(oks))
         IN  IF block.type = "tool_use"
             THEN <<[type |-> "tool_result", tool_use_id |-> block.id,
                     content |-> _execute_tool(block.name,
                                               ToolInput(c, block.name),
                                               Head(oks))]>> \o rest
             ELSE rest

\* the tool results put into the transcript ahead of the turn they answer
RelayRoundResultsFirst(messages, blocks, tool_results) ==
    messages \o <<[role |-> "user", content |-> tool_results],
                  [role |-> "assistant", content |-> blocks]>>

\* run(): messages.append(assistant turn); messages.append(user turn with the
\* tool results)
RelayRound(messages, blocks, tool_results) ==
    messages \o <<[role |-> "assistant", content |-> blocks],
                  [role |-> "user", content |-> tool_results]>>

RECURSIVE ToolEffects(_, _)
ToolEffects(content, oks) ==
    IF content = <<>> THEN <<>>
    ELSE ToolEffect(Head(content), Head(oks)) \o ToolEffects(Tail(content), Tail(oks))

\* run(): the while loop's body, every tool_use block of the response in order
ExecuteTools ==
    /\ call.pc = "tools"
    /\ \E oks \in [DOMAIN call.content -> BOOLEAN] :
          LET blocks == ContentBlocks(call.content, call.rounds)
          IN  /\ deliveries' = deliveries \o ToolEffects(call.content, oks)
              /\ call' = Assign(call,
                            [pc |-> "llm", rounds |-> call.rounds + 1,
                             messages |-> RelayRound(call.messages, blocks,
                                                     ToolResults(call, blocks, oks))])
    /\ UNCHANGED <<served, conversations, profiles, active_agents, interaction_logs, preferences,
                   policy_call, update_calls, match_vars>>

\* _autonomous_outreach: the send on the channel the contact information gives
Send ==
    /\ call.pc = "send"
    /\ LET channel == Channel(call.other_profile)
       IN  \/ /\ channel = "imessage"
              /\ \/ /\ deliveries' =
                         Append(deliveries, Delivery("imessage", "outreach", TRUE))
                    /\ call' = Assign(call, [pc |-> "log",
                                  result |-> [action |-> "sent_imessage",
                                              message |-> call.message,
                                              success |-> TRUE]])
                 \/ /\ deliveries' =
                         Append(deliveries, Delivery("imessage", "outreach", FALSE))
                    /\ call' = Raised(call, "iMessageSendError")
           \/ /\ channel = "email"
              /\ \/ /\ deliveries' =
                         Append(deliveries, Delivery("gmail", "outreach", TRUE))
                    \* send_email returns a str: send_result.get(...) raises
                    /\ call' = Raised(call, "AttributeError")
                 \/ /\ deliveries' =
                         Append(deliveries, Delivery("gmail", "outreach", FALSE))
                    /\ call' = Raised(call, "GmailError")
           \/ /\ channel = "none"
              /\ call' = Assign(call, [pc |-> "log",
                                       result |-> [action |-> "no_contact_method"]])
              /\ UNCHANGED deliveries
    /\ UNCHANGED <<served, conversations, profiles, active_agents, interaction_logs, preferences,
                   policy_call, update_calls, match_vars>>

\* self.mcp_client.log_interaction(..., 'autonomous_outreach', ...); return result
Log ==
    /\ call.pc = "log"
    /\ \/ /\ interaction_logs' =
               Append(interaction_logs,
                      [user_id |-> call.user_id, other_user_id |-> call.other_user_id,
                       interaction_type |-> "autonomous_outreach"])
          /\ call' = Assign(call, [pc |-> "returned"])
       \/ /\ call' = Raised(call, "MCPError")
          /\ UNCHANGED interaction_logs
    /\ UNCHANGED <<served, conversations, profiles, active_agents, deliveries, preferences,
                   policy_call, update_calls, match_vars>>

-----------------------------------------------------------------------------
(* agent.py: handle_incoming_message, behind agent/main.py's               *)
(* /users/{user_id}/messages/incoming                                      *)

\* cache.py save_conversation_message: the stored message_data (the timestamp
\* is the position in the store)
MessageData(conversation_id, sender, message, metadata) ==
    [conversation_id |-> conversation_id, sender |-> sender,
     message |-> message, metadata |-> metadata]

GeneratedByAgent == [generated_by_agent |-> TRUE]

RECURSIVE Reverse(_)
Reverse(seq) == IF seq = <<>> THEN <<>> ELSE Append(Reverse(Tail(seq)), Head(seq))

\* messages[:limit]
Prefix(seq, limit) == SubSeq(seq, 1, IF Len(seq) < limit THEN Len(seq) ELSE limit)

HistoryLimit == 50

\* cache.py get_conversation_history: zrevrange(key, 0, limit - 1), newest first
get_conversation_history(store, conversation_id) ==
    Prefix(Reverse(SelectSeq(store, LAMBDA m : m.conversation_id = conversation_id)),
           HistoryLimit)

\* POST /users/{user_id}/messages/incoming: get_or_create_agent, then the
\* handler starts
MessageReceived(user_id, sender_id, message, conversation_id) ==
    /\ call.pc = "idle"
    /\ LET started == [pc |-> "history", handler |-> "incoming", user_id |-> user_id,
                       sender_id |-> sender_id, message |-> message,
                       conversation_id |-> conversation_id]
       IN  IF user_id \in DOMAIN active_agents
           THEN /\ call' = started
                /\ UNCHANGED active_agents
           ELSE \/ /\ active_agents' =
                        Assign(active_agents,
                               [u \in {user_id} |->
                                   [user_profile |-> GetUserProfile(profiles, user_id)]])
                   /\ call' = started
                \/ /\ call' = Raised(started, "agent_init")
                   /\ UNCHANGED active_agents
    /\ UNCHANGED <<served, conversations, profiles, deliveries, interaction_logs,
                   preferences, policy_call, update_calls, match_vars>>

\* history = self.mcp_client.get_conversation_history(conversation_id)
History ==
    /\ call.pc = "history"
    /\ \/ call' = Assign(call, [pc |-> "sender",
                                history |-> get_conversation_history(
                                               conversations, call.conversation_id)])
       \/ call' = Raised(call, "MCPError")
    /\ UNCHANGED <<served, conversations, profiles, active_agents, deliveries,
                   interaction_logs, preferences, policy_call, update_calls, match_vars>>

\* sender_profile = self.mcp_client.get_user_profile(sender_id)
SenderLookup ==
    /\ call.pc = "sender"
    /\ \/ call' = Assign(call, [pc |-> "save_incoming",
                                sender_profile |->
                                    GetUserProfile(profiles, call.sender_id)])
       \/ call' = Raised(call, "MCPError")
    /\ UNCHANGED <<served, conversations, profiles, active_agents, deliveries,
                   interaction_logs, preferences, policy_call, update_calls, match_vars>>

ExcerptLength == 5

\* history[-5:] if history else 'First message'
HistoryExcerpt(history) ==
    IF history = <<>> THEN <<>>
    ELSE SubSeq(history,
                IF Len(history) > ExcerptLength THEN Len(history) - ExcerptLength + 1
                ELSE 1,
                Len(history))

\* the inbound message saved only after the text generator has answered
SaveIncomingDeferred(store, c) == store

\* self.mcp_client.save_conversation_message(conversation_id, sender_id, message)
SaveIncomingMessage(store, c) ==
    Append(store, MessageData(c.conversation_id, c.sender_id, c.message, EmptyDict))

\* the save of the inbound message, then the prompt: sender_profile.get('name',
\* 'someone') and self.user_profile.get('name') raise on None
SaveIncoming ==
    /\ call.pc = "save_incoming"
    /\ \/ /\ conversations' = SaveIncomingMessage(conversations, call)
          /\ call' = IF \/ call.sender_profile = PyNone
                        \/ active_agents[call.user_id].user_profile = PyNone
                     THEN Raised(call, "AttributeError")
                     ELSE Assign(call,
                            RunStart([task |-> "incoming", message |-> call.message,
                                      history |-> HistoryExcerpt(call.history)]))
       \/ /\ call' = Raised(call, "MCPError")
          /\ UNCHANGED conversations
    /\ UNCHANGED <<served, profiles, active_agents, deliveries, interaction_logs,
                   preferences, policy_call, update_calls, match_vars>>

\* 'take over' in output.lower(), on the final texts of the model
TakeOverTexts == {"Let me ask them to take over."}

\* self.mcp_client.save_conversation_message(conversation_id, self.user_id,
\*     output, {'generated_by_agent': True}); return {'response': output, ...}
SaveResponse ==
    /\ call.pc = "save_response"
    /\ \/ /\ conversations' =
               Append(conversations,
                      MessageData(call.conversation_id, call.user_id, call.output,
                                  GeneratedByAgent))
          /\ call' = Returned(call,
                       [response |-> call.output,
                        should_notify_user |-> call.output \in TakeOverTexts,
                        conversation_id |-> call.conversation_id])
       \/ /\ call' = Raised(call, "MCPError")
          /\ UNCHANGED conversations
    /\ UNCHANGED <<served, profiles, active_agents, deliveries, interaction_logs,
                   preferences, policy_call, update_calls, match_vars>>

-----------------------------------------------------------------------------
(* Profiles the Match Scorer is called on.  A profile is a dict: a field   *)
(* may be missing (not in the DOMAIN) or present and empty.  Every field   *)
(* has a core value; a profile takes at most one field from the further    *)
(* values, which keeps the set of pairs small while every pair of values   *)
(* of one field still meets.                                               *)

ProfileFields == {"interests", "industry", "role", "seniority", "goals"}

s_AI == <<"A","I">>
s_ai == <<"a","i">>
s_ML == <<"M","L">>
s_ml == <<"m","l">>
s_Go == <<"G","o">>
s_Tech == <<"T","e","c","h">>
s_tech == <<"t","e","c","h">>
s_tech_x_y == <<"t","e","c","h"," ","x"," ","y">>
s_y_x_Tech == <<"y"," ","x"," "," ","T","e","c","h">>
s_x_tech == <<"x"," ","t","e","c","h">>
s_Dev == <<"D","e","v">>
s_dev == <<"d","e","v">>
s_Developer == <<"D","e","v","e","l","o","p","e","r">>
s_Senior == <<"S","e","n","i","o","r">>
s_lead == <<"l","e","a","d">>
s_Manager == <<"M","a","n","a","g","e","r">>
s_intern == <<"i","n","t","e","r","n">>
s_VP == <<"V","P">>
s_Senior_Manager == <<"S","e","n","i","o","r"," ","M","a","n","a","g","e","r">>
s_hire_devs == <<"h","i","r","e"," ","d","e","v","s">>
s_Hire == <<"H","i","r","e">>
s_raise == <<"r","a","i","s","e">>
s_empty == <<>>

s_Technology == <<"T","e","c","h","n","o","l","o","g","y">>
s_Software_Engineer == <<"S","o","f","t","w","a","r","e"," ","E","n","g","i","n","e","e","r">>
s_Product_Manager == <<"P","r","o","d","u","c","t"," ","M","a","n","a","g","e","r">>
s_senior == <<"s","e","n","i","o","r">>
s_networking == <<"n","e","t","w","o","r","k","i","n","g">>
s_startups == <<"s","t","a","r","t","u","p","s">>
s_product == <<"p","r","o","d","u","c","t">>
s_build_connections == <<"b","u","i","l","d"," ","c","o","n","n","e","c","t","i","o","n","s">>
s_find_cofounders == <<"f","i","n","d"," ","c","o","f","o","u","n","d","e","r","s">>
s_launch_product == <<"l","a","u","n","c","h"," ","p","r","o","d","u","c","t">>

\* test_matching_algorithm: user1 and user2
TestUser1 ==
    [interests |-> <<s_AI, s_networking, s_startups>>, industry |-> s_Technology,
     role |-> s_Software_Engineer, seniority |-> s_senior,
     goals |-> <<s_build_connections>>]
TestUser2 ==
    [interests |-> <<s_AI, s_product, s_networking>>, industry |-> s_Technology,
     role |-> s_Product_Manager, seniority |-> s_senior,
     goals |-> <<s_build_connections, s_launch_product>>]

CoreValue ==
    [interests |-> <<s_AI, s_ML>>,
     industry  |-> s_Tech,
     role      |-> s_Dev,
     seniority |-> s_Senior,
     goals     |-> <<s_hire_devs>>]

FurtherValues ==
    [interests |-> {<<>>, <<s_ai>>, <<s_ml, s_Go>>},
     industry  |-> {s_empty, s_tech, s_tech_x_y, s_y_x_Tech, s_x_tech},
     role      |-> {s_empty, s_dev, s_Developer},
     seniority |-> {s_empty, s_lead, s_Manager, s_intern, s_VP, s_Senior_Manager},
     goals     |-> {<<>>, <<s_empty>>, <<s_Hire, s_raise>>}]

CoreProfiles == {[f \in F |-> CoreValue[f]] : F \in SUBSET ProfileFields}

FurtherProfiles ==
    UNION {UNION {{[f \in F \cup {g} |-> IF f = g THEN v ELSE CoreValue[f]] :
                      v \in FurtherValues[g]} :
                  F \in {{}, ProfileFields \ {g}}} :
           g \in ProfileFields}

MatchProfiles == CoreProfiles \cup FurtherProfiles \cup {TestUser1, TestUser2}

-----------------------------------------------------------------------------
(* The Match Scorer called on a pair of profiles                           *)

NotCalled == [called |-> FALSE]

NoPolicyCall == [op |-> "none"]

\* the agent process before any request
AgentAtRest ==
    /\ active_agents = EmptyDict
    /\ call = Idle
    /\ deliveries = <<>>
    /\ interaction_logs = <<>>
    /\ conversations = <<>>
    /\ served = 0

Sessions == {"s1", "s2"}
NoUpdateCalls == [s \in Sessions |-> [pc |-> "idle"]]

InitMatch ==
    /\ user1_profile \in MatchProfiles
    /\ user2_profile \in MatchProfiles
    /\ match_out = NotCalled
    /\ preferences = [u \in UserIds |-> NoRow]
    /\ policy_call = NoPolicyCall
    /\ update_calls = NoUpdateCalls
    /\ profiles = EmptyDict
    /\ AgentAtRest

\* score = calculate_match_score(user1_profile, user2_profile)
CalculateMatchScore ==
    /\ ~match_out.called
    /\ match_out' = [called |-> TRUE,
                     parts  |-> MatchParts(user1_profile, user2_profile),
                     score  |-> calculate_match_score(user1_profile, user2_profile)]
    /\ UNCHANGED <<user1_profile, user2_profile, preferences, policy_call,
                   update_calls, agent_vars>>

\* reason = get_match_reason(user1_profile, user2_profile, score)
GetMatchReason ==
    /\ match_out.called
    /\ "reason" \notin DOMAIN match_out
    /\ match_out' = Assign(match_out,
                           [reason |-> get_match_reason(user1_profile, user2_profile)])
    /\ UNCHANGED <<user1_profile, user2_profile, preferences, policy_call,
                   update_calls, agent_vars>>

NextMatch == CalculateMatchScore \/ GetMatchReason

SpecMatch == InitMatch /\ [][NextMatch]_vars

\* a rational in the closed interval [0, 1]
InUnitInterval(r) == RatLeq(Zero, r) /\ RatLeq(r, One)

\* the four fields of a record of rationals brought to one denominator:
\* 4*interest + 3*industry + 2*role + 1*goals, as numerator over Denominator
CommonDenominator(parts) ==
    parts.interest[2] * parts.industry[2] * parts.role[2] * parts.goals[2]
TenthsNumerator(parts) ==
    4 * parts.interest[1] * parts.industry[2] * parts.role[2] * parts.goals[2]
  + 3 * parts.industry[1] * parts.interest[2] * parts.role[2] * parts.goals[2]
  + 2 * parts.role[1] * parts.interest[2] * parts.industry[2] * parts.goals[2]
  + parts.goals[1] * parts.interest[2] * parts.industry[2] * parts.role[2]

AllFieldsNonEmpty(profile) ==
    /\ DOMAIN profile = ProfileFields
    /\ \A f \in ProfileFields : profile[f] # <<>>

\* C8 as stated: a profile whose five fields are all non-empty scores 1.0
\* against itself.
C8_SelfMatchIsOne ==
    (match_out.called /\ user1_profile = user2_profile
       /\ AllFieldsNonEmpty(user1_profile))
    => match_out.score = One

\* C8 (amended): a profile whose five fields are all non-empty, whose seniority
\* contains a token of the seniority ladder and whose goals contain at least
\* one word scores 1.0 against itself.
C8_SelfMatchIsOneOnLadder ==
    (match_out.called /\ user1_profile = user2_profile
       /\ AllFieldsNonEmpty(user1_profile)
       /\ SeniorityLevel(user1_profile.seniority) >= 0
       /\ Split(Lower(Join(user1_profile.goals))) # <<>>)
    => match_out.score = One

\* a self-match of a complete profile whose seniority names two ladder tokens
C8_Witness ==
    /\ match_out.called
    /\ user1_profile = user2_profile
    /\ AllFieldsNonEmpty(user1_profile)
    /\ user1_profile.seniority = s_Senior_Manager
    /\ match_out.score = One

\* the role part and the seniority part of the pair, taken in both directions
RolePointsOf(a, b) == RolePoints(Get(a, "role", <<>>), Get(b, "role", <<>>))
SeniorityPointsOf(a, b) ==
    SeniorityPoints(Get(a, "seniority", <<>>), Get(b, "seniority", <<>>))

\* C9: the interest, industry and goals sub-scores of (a, b) equal those of
\* (b, a), the seniority part is symmetric too, and the two scores differ only
\* when the role-token substring check differs between the two directions.
C9_SymmetricExceptRoleTokens ==
    match_out.called =>
        LET reverse == MatchParts(user2_profile, user1_profile)
        IN  /\ match_out.parts.interest = reverse.interest
            /\ match_out.parts.industry = reverse.industry
            /\ match_out.parts.goals = reverse.goals
            /\ SeniorityPointsOf(user1_profile, user2_profile)
                 = SeniorityPointsOf(user2_profile, user1_profile)
            /\ (match_out.score # calculate_match_score(user2_profile, user1_profile)
                  => RolePointsOf(user1_profile, user2_profile)
                       # RolePointsOf(user2_profile, user1_profile))

\* a pair whose scores differ by direction while interests of different sizes,
\* industries and goals overlap
C9_Witness ==
    /\ match_out.called
    /\ match_out.score # calculate_match_score(user2_profile, user1_profile)
    /\ match_out.parts.interest # Zero
    /\ match_out.parts.goals # Zero
    /\ SeniorityPointsOf(user1_profile, user2_profile) > 0

\* the scorer was called on the tests' pair: Software Engineer against Product
\* Manager, both senior
TestPairScored ==
    /\ match_out.called
    /\ user1_profile = TestUser1
    /\ user2_profile = TestUser2

\* C12 as stated: for role 'Software Engineer' against 'Product Manager' with
\* both seniorities 'senior' the role/seniority sub-score is 0.8.
C12_RoleSubScoreIsFourFifths ==
    TestPairScored => match_out.parts.role = Rat(4, 5)

\* C12 (amended): for role 'Software Engineer' against 'Product Manager' with
\* both seniorities 'senior' the role/seniority sub-score is 0.5: nothing for
\* the role part, since no token of one role occurs in the other, plus 0.5 for
\* seniority distance 0.
C12_RoleSubScoreIsHalf ==
    TestPairScored =>
        /\ match_out.parts.role = Rat(1, 2)
        /\ RolePointsOf(user1_profile, user2_profile) = 0
        /\ SeniorityPointsOf(user1_profile, user2_profile) = 5

\* the tests' pair scored, with its role sub-score at one half
C12_Witness ==
    /\ TestPairScored
    /\ match_out.parts.role = Rat(1, 2)
    /\ match_out.parts.interest = Rat(1, 2)

-----------------------------------------------------------------------------
(* The Permission Policy's reads, over the rows the preference store can   *)
(* hold: any of the five keys missing, valid, empty or unparseable.        *)

StoredValues ==
    {"always_ask", "auto_high_match", "always_auto", "never", "", "sometimes", JsonNull}

ActionKeys == {ActionValue[a] : a \in ActionType}

StoredPermissions ==
    UNION {[K -> StoredValues] : K \in SUBSET ActionKeys}

InitPolicy ==
    /\ preferences \in [UserIds -> {NoRow}]
          \cup {[u \in UserIds |-> IF u = "u1" THEN Row(p) ELSE NoRow] :
                    p \in StoredPermissions}
    /\ policy_call = NoPolicyCall
    /\ update_calls = NoUpdateCalls
    /\ profiles = EmptyDict
    /\ AgentAtRest
    /\ user1_profile = EmptyDict
    /\ user2_profile = EmptyDict
    /\ match_out = NotCalled

\* permissions_manager.get_user_permissions(user_id)
GetUserPermissionsCall(user_id) ==
    /\ policy_call.op = "none"
    /\ \E ok \in BOOLEAN :
          policy_call' =
            IF ok
            THEN [op |-> "get_user_permissions", user_id |-> user_id, raised |-> FALSE,
                  result |-> get_user_permissions(GetPreferences(preferences, user_id))]
            ELSE [op |-> "get_user_permissions", user_id |-> user_id, raised |-> TRUE]
    /\ UNCHANGED <<preferences, update_calls, match_vars, agent_vars>>

\* permissions_manager.can_auto_execute(user_id, action_type, is_high_match)
CanAutoExecuteCall(user_id, action_type, high_match) ==
    /\ policy_call.op = "none"
    /\ \E ok \in BOOLEAN :
          policy_call' =
            IF ok
            THEN [op |-> "can_auto_execute", user_id |-> user_id,
                  action_type |-> action_type, is_high_match |-> high_match,
                  raised |-> FALSE,
                  result |-> can_auto_execute(GetPreferences(preferences, user_id),
                                              action_type, high_match)]
            ELSE [op |-> "can_auto_execute", user_id |-> user_id,
                  action_type |-> action_type, is_high_match |-> high_match,
                  raised |-> TRUE]
    /\ UNCHANGED <<preferences, update_calls, match_vars, agent_vars>>

NextPolicy ==
    \/ \E u \in UserIds : GetUserPermissionsCall(u)
    \/ \E u \in UserIds, a \in ActionType, h \in BOOLEAN : CanAutoExecuteCall(u, a, h)

SpecPolicy == InitPolicy /\ [][NextPolicy]_vars

\* the levels the Permission Policy reads for a user from a preference table
EffectiveLevels(table, user_id) == get_user_permissions(GetPreferences(table, user_id))

\* C4: for every user, ActionType and is_high_match, can_auto_execute answers
\* false at level never, true at always_auto, is_high_match at auto_high_match
\* and false at always_ask.
C4_DecisionTable ==
    (policy_call.op = "can_auto_execute" /\ ~policy_call.raised) =>
        LET level == EffectiveLevels(preferences, policy_call.user_id)
                        [policy_call.action_type]
        IN  /\ level \in PermissionLevels
            /\ LevelValue[level] = "never" => policy_call.result = FALSE
            /\ LevelValue[level] = "always_auto" => policy_call.result = TRUE
            /\ LevelValue[level] = "auto_high_match"
                  => policy_call.result = policy_call.is_high_match
            /\ LevelValue[level] = "always_ask" => policy_call.result = FALSE

\* a high match refused because send_email is stored as always_ask
C4_Witness ==
    /\ policy_call.op = "can_auto_execute"
    /\ ~policy_call.raised
    /\ policy_call.action_type = "SEND_EMAIL"
    /\ policy_call.is_high_match
    /\ preferences[policy_call.user_id].exists
    /\ Get(preferences[policy_call.user_id].permissions, "send_email", "") = "always_ask"
    /\ policy_call.result = FALSE

\* the documented defaults, by the stored names of action and level
DocumentedDefault ==
    [send_message       |-> "auto_high_match",
     send_email         |-> "auto_high_match",
     request_connection |-> "auto_high_match",
     schedule_meeting   |-> "always_ask",
     share_profile      |-> "always_auto"]

ValidLevelStrings == {"always_ask", "auto_high_match", "always_auto", "never"}

\* C5: get_user_permissions answers with exactly the five ActionTypes; without
\* a stored record every entry is the documented default; with one, a key that
\* is missing or holds no valid level string takes its default and a valid key
\* keeps its stored level.
C5_FiveLevelsWithDefaults ==
    (policy_call.op = "get_user_permissions" /\ ~policy_call.raised) =>
        LET row == preferences[policy_call.user_id]
            result == policy_call.result
        IN  /\ DOMAIN result = ActionType
            /\ Cardinality(DOMAIN result) = 5
            /\ \A a \in ActionType :
                  LET key == ActionValue[a]
                  IN  IF row.exists /\ key \in DOMAIN row.permissions
                         /\ row.permissions[key] \in ValidLevelStrings
                      THEN LevelValue[result[a]] = row.permissions[key]
                      ELSE LevelValue[result[a]] = DocumentedDefault[key]

\* a stored record with a valid key, an unparseable key and a missing key
C5_Witness ==
    /\ policy_call.op = "get_user_permissions"
    /\ ~policy_call.raised
    /\ preferences[policy_call.user_id].exists
    /\ LET stored == preferences[policy_call.user_id].permissions
       IN  /\ Get(stored, "schedule_meeting", "") = "sometimes"
           /\ Get(stored, "send_message", "") = "never"
           /\ "share_profile" \notin DOMAIN stored
    /\ policy_call.result["SCHEDULE_MEETING"] = "ALWAYS_ASK"
    /\ policy_call.result["SEND_MESSAGE"] = "NEVER"
    /\ policy_call.result["SHARE_PROFILE"] = "ALWAYS_AUTO"

\* C17: get_user_permissions and can_auto_execute never raise: in every state
\* of the preference store and for every outcome of the store call they return
\* a result.
C17_PolicyReadsNeverRaise ==
    policy_call.op # "none" =>
        /\ ~policy_call.raised
        /\ "result" \in DOMAIN policy_call

-----------------------------------------------------------------------------
(* update_permission, called from two client sessions.  A call is a read   *)
(* of the preferences (GET) and then a write (PATCH); the other session's  *)
(* steps may fall between the two.                                         *)
(* `before` and `clean` are history: the table when the call began, and    *)
(* whether no other session has written since.                             *)

\* permissions[action_type.value] = permission_level.value
DictSet(d, key, value) ==
    [k \in DOMAIN d \cup {key} |-> IF k = key THEN value ELSE d[k]]

\* update_permission up to its write: prefs = get_user_preferences(user_id);
\* permissions = prefs.get('permissions', {}); permissions[...] = ...
UpdateRead(s, user_id, action_type, permission_level) ==
    /\ update_calls[s].pc = "idle"
    /\ \E ok \in BOOLEAN :
          update_calls' = [update_calls EXCEPT ![s] =
            IF ok
            THEN [pc |-> "write", user_id |-> user_id, action_type |-> action_type,
                  permission_level |-> permission_level,
                  permissions |->
                      DictSet(Get(GetPreferences(preferences, user_id),
                                  "permissions", EmptyDict),
                              ActionValue[action_type], LevelValue[permission_level]),
                  before |-> preferences, clean |-> TRUE]
            ELSE [pc |-> "raised", user_id |-> user_id, action_type |-> action_type,
                  permission_level |-> permission_level]]
    /\ UNCHANGED <<preferences, policy_call, match_vars, agent_vars>>

\* a successful write by session s ends `clean` for every other call under way
Disturb(calls, s) ==
    [t \in Sessions |->
        IF t # s /\ calls[t].pc \in {"write", "returned"}
        THEN [calls[t] EXCEPT !.clean = FALSE]
        ELSE calls[t]]

\* return self.mcp_client.update_user_preferences(user_id, {'permissions': permissions})
UpdateWrite(s) ==
    /\ update_calls[s].pc = "write"
    /\ \/ /\ preferences' = PatchPreferences(preferences, update_calls[s].user_id,
                                              update_calls[s].permissions)
          /\ update_calls' =
                Disturb([update_calls EXCEPT ![s].pc = "returned"], s)
       \/ /\ update_calls' = [update_calls EXCEPT ![s].pc = "raised"]
          /\ UNCHANGED preferences
    /\ UNCHANGED <<policy_call, match_vars, agent_vars>>

InitialRows ==
    {NoRow,
     Row(EmptyDict),
     Row([send_message |-> "always_ask"]),
     Row([send_message |-> "sometimes", send_email |-> "never",
          schedule_meeting |-> ""])}

InitPerm ==
    /\ preferences \in [UserIds -> InitialRows]
    /\ policy_call = NoPolicyCall
    /\ update_calls = NoUpdateCalls
    /\ profiles = EmptyDict
    /\ AgentAtRest
    /\ user1_profile = EmptyDict
    /\ user2_profile = EmptyDict
    /\ match_out = NotCalled

NextPerm ==
    \/ \E s \in Sessions, u \in UserIds, a \in ActionType, l \in PermissionLevels :
          UpdateRead(s, u, a, l)
    \/ \E s \in Sessions : UpdateWrite(s)

SpecPerm == InitPerm /\ [][NextPerm]_vars

\* C6: after a successful update_permission(user, action, level) with no other
\* writer in between, the user's level for that action is the new level, and
\* every other level of that user and every level of every other user is what
\* it was before the call, whether or not the user had a stored record.
C6_UpdateRoundTrip ==
    \A s \in Sessions :
        (update_calls[s].pc = "returned" /\ update_calls[s].clean) =>
            LET c == update_calls[s]
            IN  /\ EffectiveLevels(preferences, c.user_id)[c.action_type]
                     = c.permission_level
                /\ \A u \in UserIds, a \in ActionType :
                      (u # c.user_id \/ a # c.action_type) =>
                          EffectiveLevels(preferences, u)[a]
                            = EffectiveLevels(c.before, u)[a]

\* an update that changed a level a stored record held
C6_Witness ==
    \E s \in Sessions :
        /\ update_calls[s].pc = "returned"
        /\ update_calls[s].clean
        /\ update_calls[s].before[update_calls[s].user_id].exists
        /\ update_calls[s].action_type = "SEND_MESSAGE"
        /\ Get(update_calls[s].before[update_calls[s].user_id].permissions,
               "send_message", "") = "always_ask"
        /\ update_calls[s].permission_level = "NEVER"

-----------------------------------------------------------------------------
(* The agent process handling one detection.  In the first store u1 has a   *)
(* profile and u2 has none; the detected people differ in score against u1 *)
(* (1, exactly the threshold, 7/10, low) and in the contact information    *)
(* they carry.  The second store holds the profiles of the tests.          *)

OwnProfile ==
    [interests |-> <<s_AI, s_ML>>, industry |-> s_Tech, role |-> s_Dev,
     seniority |-> s_Senior, goals |-> <<s_hire_devs>>,
     contact |-> [phone |-> "+15550001"]]

InitialProfiles ==
    [u1     |-> OwnProfile,
     p_high |-> [interests |-> <<s_ai, s_ml>>, industry |-> s_tech, role |-> s_dev,
                 seniority |-> s_Senior_Manager, goals |-> <<s_hire_devs>>,
                 contact |-> [phone |-> "+15550002", email |-> "high@example.com"]],
     p_eq   |-> [interests |-> <<s_AI, s_ML>>, industry |-> s_Tech,
                 goals |-> <<s_Hire>>,
                 contact |-> [email |-> "eq@example.com"]],
     p_near |-> [interests |-> <<s_AI, s_ML>>, industry |-> s_Tech,
                 contact |-> [phone |-> "+15550003", email |-> ""]],
     p_low  |-> [interests |-> <<s_Go>>, industry |-> s_tech_x_y, role |-> s_Developer]]

\* MockMCPClient.get_user_profile: test_user (here u1) and other_user; u2 is
\* user1 of test_matching_algorithm
TestProfiles ==
    [u1 |-> [interests |-> <<s_AI, s_networking, s_startups>>,
             industry |-> s_Technology, role |-> s_Software_Engineer,
             seniority |-> s_senior,
             goals |-> <<s_build_connections, s_find_cofounders>>,
             contact |-> [phone |-> "+1234567890", email |-> "test@example.com"]],
     u2 |-> TestUser1,
     other_user |-> [interests |-> TestUser2.interests, industry |-> TestUser2.industry,
                     role |-> TestUser2.role, seniority |-> TestUser2.seniority,
                     goals |-> TestUser2.goals,
                     contact |-> [phone |-> "+0987654321",
                                  email |-> "other@example.com"]]]

DetectedIds == {"p_high", "p_eq", "p_near", "p_low", "u2", "other_user"}

AgentRows ==
    {NoRow,
     Row([send_message |-> "always_ask"]),
     Row([send_message |-> "always_auto", send_email |-> "never"]),
     Row([send_message |-> "never"]),
     Row([send_message |-> "auto_high_match", schedule_meeting |-> "always_auto"]),
     Row([send_message |-> "sometimes"])}

Init ==
    /\ preferences \in [UserIds -> AgentRows]
    /\ profiles \in {InitialProfiles, TestProfiles}
    /\ AgentAtRest
    /\ policy_call = NoPolicyCall
    /\ update_calls = NoUpdateCalls
    /\ user1_profile = EmptyDict
    /\ user2_profile = EmptyDict
    /\ match_out = NotCalled

Next ==
    \/ \E u \in UserIds, o \in DetectedIds : UserDetected(u, o)
    \/ Lookup
    \/ Score
    \/ Gate
    \/ AskPermission
    \/ Templates
    \/ LLM
    \/ ExecuteTools
    \/ Send
    \/ Log

Spec == Init /\ [][Next]_vars

\* the sends the delivery adapters were asked for in this run
Sends == {i \in DOMAIN deliveries : deliveries[i].adapter \in SendAdapters}

\* the run has returned this action to its caller
ReturnedAction(action) == call.pc = "returned" /\ call.result.action = action

\* C1: a delivery-adapter send happens only after the other profile was found,
\* the score was computed and can_auto_execute answered true in the same run;
\* a run that returns skip or request_permission has sent nothing.
C1_SendOnlyAfterGate ==
    /\ Sends # {} =>
          /\ "other_profile" \in DOMAIN call
          /\ ~NoProfile(call.other_profile)
          /\ "match_score" \in DOMAIN call
          /\ "can_auto_message" \in DOMAIN call
          /\ call.can_auto_message = TRUE
    /\ (ReturnedAction("skip") \/ ReturnedAction("request_permission")) => Sends = {}

\* a run that passed the gate and delivered over iMessage
C1_Witness ==
    /\ ReturnedAction("sent_imessage")
    /\ call.can_auto_message = TRUE
    /\ \E i \in Sends : deliveries[i].adapter = "imessage" /\ deliveries[i].delivered

\* the value stored for send_message in the user's preference row, if any
StoredSendMessage(user_id) ==
    IF preferences[user_id].exists
    THEN Get(preferences[user_id].permissions, "send_message", "")
    ELSE ""

\* C2: with send_message stored as always_ask, a run that found the other
\* profile returns request_permission whatever the score, sends nothing and
\* writes no interaction log.
C2_AlwaysAskNeverSends ==
    (call.pc # "idle" /\ StoredSendMessage(call.user_id) = "always_ask") =>
        /\ deliveries = <<>>
        /\ interaction_logs = <<>>
        /\ call.pc \in {"lookup", "score", "gate", "ask", "returned", "raised"}
        /\ (call.pc = "returned" /\ "other_profile" \in DOMAIN call)
              => call.result.action = "request_permission"

\* always_ask answering a perfect match with request_permission
C2_Witness ==
    /\ ReturnedAction("request_permission")
    /\ StoredSendMessage(call.user_id) = "always_ask"
    /\ call.match_score = One
    /\ call.is_high_match

\* C3: when the store has no profile of the detected person, the run returns
\* exactly {action: 'skip', reason: 'No profile found'}; it computes no score,
\* reads no permissions, attempts no send and logs no interaction.
C3_NotFoundSkips ==
    (call.pc # "idle" /\ call.other_user_id \notin DOMAIN profiles) =>
        /\ call.pc \in {"lookup", "returned", "raised"}
        /\ call.pc = "returned"
              => call.result = [action |-> "skip", reason |-> "No profile found"]
        /\ "match_score" \notin DOMAIN call
        /\ "can_auto_message" \notin DOMAIN call
        /\ deliveries = <<>>
        /\ interaction_logs = <<>>

\* a detection of an unknown person, answered with skip
C3_Witness ==
    /\ ReturnedAction("skip")
    /\ call.other_user_id \notin DOMAIN profiles
    /\ call.user_id \in DOMAIN profiles

\* the run went to the user for permission
Asked == call.pc = "ask" \/ ReturnedAction("request_permission")

\* C10: with send_message at auto_high_match and the other profile found, the
\* run enters autonomous outreach exactly when the score is at or above the
\* threshold (a score equal to the threshold is a high match); otherwise it
\* returns request_permission.
C10_OutreachIffAtOrAboveThreshold ==
    ("can_auto_message" \in DOMAIN call
       /\ StoredSendMessage(call.user_id) = "auto_high_match") =>
        /\ ~NoProfile(call.other_profile)
        /\ Asked <=> RatLess(call.match_score, HIGH_MATCH_THRESHOLD)
        /\ ~Asked => call.pc \in {"templates", "llm", "tools", "send", "log",
                                  "returned", "raised"}
        /\ (call.pc = "returned" /\ ~Asked)
              => call.result.action \in {"sent_imessage", "sent_email",
                                         "no_contact_method"}

\* a score exactly at the threshold, taken into the outreach
C10_Witness ==
    /\ call.pc = "send"
    /\ StoredSendMessage(call.user_id) = "auto_high_match"
    /\ call.match_score = HIGH_MATCH_THRESHOLD

\* the tests' other_user was detected and scored against a tests' user
TestDetectionScored ==
    /\ profiles = TestProfiles
    /\ call.pc # "idle"
    /\ call.other_user_id = "other_user"
    /\ "match_score" \in DOMAIN call

\* the send_message setting is the default one (no stored row, or the row of
\* the tests' preference store)
DefaultSendMessage(user_id) ==
    \/ ~preferences[user_id].exists
    \/ StoredSendMessage(user_id) = "auto_high_match"

OutreachSends == {i \in Sends : deliveries[i].via = "outreach"}
FailedOutreachSends == {i \in OutreachSends : ~deliveries[i].delivered}

\* C13: when the delivery adapter fails during autonomous outreach, the run
\* returns {action: 'sent_imessage' or 'sent_email', success: false} to its
\* caller; no exception of the adapter escapes.
C13_FailedSendReturnsStructuredResult ==
    FailedOutreachSends # {} =>
        /\ ~(call.pc = "raised"
               /\ call.error \in {"iMessageSendError", "GmailError", "AttributeError"})
        /\ call.pc = "returned" =>
              /\ call.result.action \in {"sent_imessage", "sent_email"}
              /\ call.result.success = FALSE

\* C14: an 'autonomous_outreach' interaction record is written only in a run
\* that attempted a send on the phone or email branch, and after that send; a
\* run that ends in no_contact_method writes no record and returns its outcome.
C14_LogOnlyAfterSend ==
    /\ interaction_logs # <<>> => OutreachSends # {}
    /\ ("result" \in DOMAIN call /\ call.result.action = "no_contact_method")
          => interaction_logs = <<>>

\* C16: if the text generator fails while the introduction is drafted, the run
\* has delivered nothing on any channel and has written no interaction log, and
\* the failure reaches the caller.
C16_FailedDraftSendsNothing ==
    (call.pc = "raised" /\ call.error = "APIError") =>
        /\ \A i \in Sends : ~deliveries[i].delivered
        /\ interaction_logs = <<>>


-----------------------------------------------------------------------------
(* One run of handle_incoming_message over a conversation store that may   *)
(* already hold an earlier exchange.  "ghost" has no profile, and neither  *)
(* has the user u2.                                                        *)

SenderIds == {"p_high", "ghost"}
IncomingMessages == {"Hello, are you at the conference?", ""}
ConversationIds == {"c1", "c2"}

EarlierExchange ==
    <<MessageData("c1", "p_high", "Hi!", EmptyDict),
      MessageData("c1", "u1", "Hello, nice to meet you.", GeneratedByAgent)>>

\* a conversation of six messages, m1 the oldest
LongExchange ==
    <<MessageData("c1", "p_high", "m1", EmptyDict),
      MessageData("c1", "u1", "m2", GeneratedByAgent),
      MessageData("c1", "p_high", "m3", EmptyDict),
      MessageData("c1", "u1", "m4", GeneratedByAgent),
      MessageData("c1", "p_high", "m5", EmptyDict),
      MessageData("c1", "u1", "m6", GeneratedByAgent)>>

InitialConversations == {<<>>, EarlierExchange, LongExchange}

InitIncoming ==
    /\ profiles = InitialProfiles
    /\ preferences = [u \in UserIds |-> NoRow]
    /\ active_agents = EmptyDict
    /\ call = Idle
    /\ deliveries = <<>>
    /\ interaction_logs = <<>>
    /\ conversations \in InitialConversations
    /\ served = 0
    /\ policy_call = NoPolicyCall
    /\ update_calls = NoUpdateCalls
    /\ user1_profile = EmptyDict
    /\ user2_profile = EmptyDict
    /\ match_out = NotCalled

NextIncoming ==
    \/ \E u \in UserIds, o \in SenderIds, m \in IncomingMessages,
          c \in ConversationIds : MessageReceived(u, o, m, c)
    \/ History
    \/ SenderLookup
    \/ SaveIncoming
    \/ LLM
    \/ ExecuteTools
    \/ SaveResponse

SpecIncoming == InitIncoming /\ [][NextIncoming]_vars

\* the inbound message of the running call, as the store holds it
Inbound == MessageData(call.conversation_id, call.sender_id, call.message, EmptyDict)

Last(seq) == seq[Len(seq)]

\* the store holds what it held before the call, then the inbound message
OnlyInboundAdded ==
    \E before \in InitialConversations : conversations = Append(before, Inbound)

\* C15: in handle_incoming_message the inbound message is in the conversation
\* store, as its newest entry, whenever the text generator is being invoked or
\* its tools run; when the handler returns, the store holds the generated
\* output, whatever it is, tagged generated_by_agent, right after the inbound
\* message; and when text generation fails the store holds the inbound message
\* and no response of the agent.
C15_InboundSavedFirstResponseAfter ==
    /\ call.pc \in {"llm", "tools", "save_response"} => OnlyInboundAdded
    /\ call.pc = "returned" =>
          \E before \in InitialConversations :
             conversations =
                before \o <<Inbound,
                            MessageData(call.conversation_id, call.user_id,
                                        call.result.response, GeneratedByAgent)>>
    /\ (call.pc = "raised" /\ call.error = "APIError") => OnlyInboundAdded

\* an empty output was saved as the agent's response, after a tool round
C15_Witness ==
    /\ call.pc = "returned"
    /\ call.result.response = ""
    /\ call.rounds = 1
    /\ Last(conversations).metadata = GeneratedByAgent
    /\ Last(conversations).message = ""
    /\ Len(conversations) = 4


-----------------------------------------------------------------------------
(* The agent service answering one detection after another for user u1,    *)
(* while one client session updates u1's send_message level and u1's       *)
(* profile is edited in the profile store between two requests.  The      *)
(* agent registry and the stores live across the requests.                 *)

\* how many requests the service takes
MaxRequests == 2

\* user_detected returns the result, or answers HTTP 500; the service is then
\* ready for the next request, and the record of the adapters' invocations
\* starts anew for it
Respond ==
    /\ call.pc \in {"returned", "raised"}
    /\ served < MaxRequests - 1
    /\ call' = Idle
    /\ served' = served + 1
    /\ deliveries' = <<>>
    /\ UNCHANGED <<conversations, profiles, active_agents, interaction_logs,
                   preferences, policy_call, update_calls, match_vars>>

\* sanity_client.update_user_profile: patch/set on an existing profile, create
\* otherwise
update_user_profile(store, user_id, data) ==
    IF user_id \in DOMAIN store
    THEN [store EXCEPT ![user_id] = DictUpdate(@, data)]
    ELSE Assign(store, [u \in {user_id} |-> data])

\* PATCH /profiles/{user_id}
UpdateUserProfile(user_id, data) ==
    /\ profiles' = update_user_profile(profiles, user_id, data)
    /\ UNCHANGED <<served, conversations, active_agents, call, deliveries,
                   interaction_logs, preferences, policy_call, update_calls,
                   match_vars>>

\* the edit of u1's profile: other interests and another industry
ProfileEdits == {[interests |-> <<s_Go>>, industry |-> s_tech_x_y]}

ServiceDetectedIds == {"p_high", "p_low"}

InitService ==
    /\ profiles = InitialProfiles
    /\ preferences = [u \in UserIds |-> NoRow]
    /\ AgentAtRest
    /\ policy_call = NoPolicyCall
    /\ update_calls = NoUpdateCalls
    /\ user1_profile = EmptyDict
    /\ user2_profile = EmptyDict
    /\ match_out = NotCalled

NextService ==
    \/ \E o \in ServiceDetectedIds : UserDetected("u1", o)
    \/ Lookup
    \/ Score
    \/ Gate
    \/ AskPermission
    \/ Templates
    \/ LLM
    \/ ExecuteTools
    \/ Send
    \/ Log
    \/ Respond
    \/ \E l \in PermissionLevels : UpdateRead("s1", "u1", "SEND_MESSAGE", l)
    \/ UpdateWrite("s1")
    \/ /\ call.pc = "idle"
       /\ \E data \in ProfileEdits : UpdateUserProfile("u1", data)

SpecService == InitService /\ [][NextService]_vars

\* what the stored send_message level allows; nothing stored is the default
\* auto_high_match
LevelAllows(stored, high_match) ==
    IF stored = "always_auto" THEN TRUE
    ELSE IF stored \in {"auto_high_match", ""} THEN high_match
    ELSE FALSE

\* the permission check of the running detection gives its answer in this step
GateDecides == call.pc = "gate" /\ call'.pc \in {"templates", "ask"}

\* C18: every answer of the gate is the one the send_message level stored at
\* that moment gives for the match; once update_permission(u1, send_message, L)
\* has returned, it is the answer L gives, whether the agent instance was
\* created before the update or after it.
C18_GateUsesStoredLevel ==
    [][GateDecides =>
          /\ call'.can_auto_message =
                LevelAllows(StoredSendMessage(call.user_id), call.is_high_match)
          /\ update_calls["s1"].pc = "returned" =>
                call'.can_auto_message =
                    Decide(update_calls["s1"].permission_level, call.is_high_match)]_vars

\* an earlier request of the same agent instance reached p_high on its own;
\* since then the level was updated, and now the same high match is asked about
C18_Witness ==
    /\ served >= 1
    /\ call.pc = "ask"
    /\ call.other_user_id = "p_high"
    /\ call.is_high_match
    /\ ~call.can_auto_message
    /\ update_calls["s1"].pc = "returned"
    /\ update_calls["s1"].permission_level \in {"ALWAYS_ASK", "NEVER"}
    /\ \E i \in DOMAIN interaction_logs : interaction_logs[i].other_user_id = "p_high"

\* the running detection computes its score in this step
ScoreComputed == call.pc = "score" /\ call'.pc = "gate"

\* C19: the score of a detection is the score of the other profile against the
\* user's own profile as the profile store holds it during that request.
C19_ScoresAgainstStoredProfile ==
    [][ScoreComputed =>
          call'.match_score =
              calculate_match_score(profiles[call.user_id], call.other_profile)]_vars

-----------------------------------------------------------------------------
(* One detection run again: what the run sends, counting the tool loop.    *)

\* C21: one run of handle_new_person_nearby invokes the delivery adapters at
\* most once, the send_email calls of the tool loop counted with the direct
\* send of the drafted message.
C21_AtMostOneSend == Cardinality(Sends) <= 1

\* the transcript of run() in the running call
Transcript == IF "messages" \in DOMAIN call THEN call.messages ELSE <<>>

\* the blocks of the assistant turns and the results of the user turns that
\* answer them
TranscriptBlocks ==
    {b \in UNION {ToSet(Transcript[k].content) :
                     k \in {j \in DOMAIN Transcript : Transcript[j].role = "assistant"}} :
        b.type = "tool_use"}
TranscriptResults ==
    UNION {ToSet(Transcript[k].content) :
              k \in {j \in DOMAIN Transcript :
                        j > 1 /\ Transcript[j].role = "user"}}

\* what _execute_tool returned for the tool_use blocks of this tool
ResultsFor(tool_name) ==
    {r.content : r \in {t \in TranscriptResults :
                           \E b \in TranscriptBlocks :
                              b.id = t.tool_use_id /\ b.name = tool_name}}

\* C22: _execute_tool answers calculate_match with a record holding a score in
\* [0,1], is_high_match and reason, and get_profile with the stored profile of
\* the user asked for; neither answer is an error result when that user exists.
C22_ProfileToolsDispatched ==
    /\ \A r \in ResultsFor("calculate_match") :
          /\ "error" \notin DOMAIN r
          /\ {"score", "is_high_match", "reason"} \subseteq DOMAIN r
          /\ InUnitInterval(r.score)
    /\ \A r \in ResultsFor("get_profile") :
          /\ "error" \notin DOMAIN r
          /\ r = profiles[call.other_user_id]

\* C23: in autonomous outreach a phone number means that only the messaging
\* adapter is invoked, also when an email is present and when the send fails;
\* the Gmail adapter is invoked only when there is no phone and an email; with
\* neither, nothing is sent and the outcome is no_contact_method.
C23_ChannelByContactPrecedence ==
    "other_profile" \in DOMAIN call =>
        LET channel == Channel(call.other_profile)
        IN  /\ channel = "imessage" =>
                  \A i \in Sends : deliveries[i].adapter = "imessage"
            /\ channel = "email" =>
                  \A i \in Sends : deliveries[i].adapter = "gmail"
            /\ channel = "none" =>
                  /\ Sends = {}
                  /\ (call.pc = "returned" /\ call.can_auto_message)
                        => call.result.action = "no_contact_method"

-----------------------------------------------------------------------------
(* get_match_reason, on the profiles of the Match Scorer                   *)

\* the two profiles have an interest in common, letter case aside
ShareAnInterest(a, b) ==
    \E i \in ToSet(Get(a, "interests", <<>>)), j \in ToSet(Get(b, "interests", <<>>)) :
        Lower(i) = Lower(j)

\* the field is present and non-empty in both and equal, letter case aside
EqualNonEmpty(a, b, field) ==
    /\ Get(a, field, <<>>) # <<>>
    /\ Get(b, field, <<>>) # <<>>
    /\ Lower(Get(a, field, <<>>)) = Lower(Get(b, field, <<>>))

FallbackPhrase == <<"potential synergy based on your profiles">>

\* C24: get_match_reason returns the fallback phrase whenever the profiles
\* share no interest, have no equal non-empty industry and no equal non-empty
\* role, also when the industry is absent or empty in both.
C24_FallbackWhenNothingShared ==
    ("reason" \in DOMAIN match_out
       /\ ~ShareAnInterest(user1_profile, user2_profile)
       /\ ~EqualNonEmpty(user1_profile, user2_profile, "industry")
       /\ ~EqualNonEmpty(user1_profile, user2_profile, "role"))
        => match_out.reason = FallbackPhrase

-----------------------------------------------------------------------------
(* The tool-calling loop of run(), inside handle_incoming_message.  The    *)
(* text generator is called whenever run() waits for it, and a round of    *)
(* tools is executed whenever one was asked for.                           *)

FairSpecIncoming == SpecIncoming /\ WF_vars(LLM) /\ WF_vars(ExecuteTools)

\* the tool_use blocks among the content blocks, in their order
ToolUseBlocks(blocks) == SelectSeq(blocks, LAMBDA b : b.type = "tool_use")

\* a round of tools has been executed in this step
RoundRelayed == call.pc = "tools" /\ call'.pc = "llm"

\* the text generator gave its final answer in this step
FinalAnswer == call.pc = "llm" /\ call'.pc \notin {"llm", "tools", "raised"}

\* run() is under way
Running == call.pc \in {"llm", "tools"}

-----------------------------------------------------------------------------
(* One detection run: the sends and the Permission Policy                  *)

\* the sends the tool loop of run() made in this run
ToolSends == {i \in Sends : deliveries[i].via = "tool"}

\* C26: the tool loop executes send_email only if can_auto_execute allows
\* send_email for the user; at the least, the user's send_email level is one
\* that allows it for some match.
C26_ToolSendsBehindPolicy ==
    ToolSends # {} =>
        \E high_match \in BOOLEAN :
            can_auto_execute(GetPreferences(preferences, call.user_id),
                             "SEND_EMAIL", high_match)

\* the value stored for send_email in the user's preference row, if any
StoredSendEmail(user_id) ==
    IF preferences[user_id].exists
    THEN Get(preferences[user_id].permissions, "send_email", "")
    ELSE ""

\* C27: with send_email stored as never, handle_new_person_nearby sends no
\* email on its own, whatever the send_message level and the score; not even
\* as the direct send of the drafted message.
C27_NoEmailWhenSendEmailNever ==
    ("user_id" \in DOMAIN call /\ StoredSendEmail(call.user_id) = "never") =>
        \A i \in OutreachSends : deliveries[i].adapter # "gmail"

\* C28: a run that ends by raising to its caller has delivered no message and
\* no email.
C28_ErrorMeansNothingDelivered ==
    call.pc = "raised" => \A i \in Sends : ~deliveries[i].delivered

-----------------------------------------------------------------------------
(* handle_incoming_message: the history excerpt of the prompt              *)

\* the messages of the running call's conversation that were stored before
\* its inbound message, oldest first
StoredBefore ==
    SelectSeq(SubSeq(conversations, 1, Len(conversations) - 1),
              LAMBDA m : m.conversation_id = call.conversation_id)

\* the latest n messages of a conversation given oldest first
Latest(stored, n) ==
    SubSeq(stored, IF Len(stored) > n THEN Len(stored) - n + 1 ELSE 1, Len(stored))

\* C29: the history excerpt in the prompt of handle_incoming_message holds the
\* most recently stored messages of the conversation: the latest five, or all
\* of them when there are fewer.
C29_ExcerptIsLatestFive ==
    call.pc \in {"llm", "tools", "save_response"} =>
        ToSet(call.messages[1].content.history)
            = ToSet(Latest(StoredBefore, ExcerptLength))

-----------------------------------------------------------------------------
(* One detection run: the gate at level never                              *)

\* C30: with send_message stored as never the run blocks the action: it sends
\* nothing and it does not return request_permission, the outcome of always_ask.
C30_NeverBlocks ==
    ("user_id" \in DOMAIN call /\ StoredSendMessage(call.user_id) = "never") =>
        /\ Sends = {}
        /\ ~ReturnedAction("request_permission")

====
